---- MODULE Spec2Model ----
(***************************************************************************)
(* Model of the rustServer authentication and download-token subsystem:    *)
(* auth.rs (login, logout, me, get_user_id, create_user), downloads.rs     *)
(* (list_files, generate_token, download_by_token, download_public,        *)
(* serve_file, sanitize_path) and the tables of db.rs.                     *)
(*                                                                         *)
(* A path string is a sequence of characters, each character a one-letter  *)
(* string; NUL stands for the byte 0.  A filesystem maps an absolute path  *)
(* (a sequence of names) to a node.                                        *)
(***************************************************************************)
EXTENDS Integers, Sequences, FiniteSets, TLC

VARIABLES
    fs,               \* the filesystem the server runs on
    users,            \* table users: set of rows
    download_files,   \* table download_files: set of rows
    download_tokens,  \* table download_tokens: set of rows
    sessions,         \* per client, the cookie session (a map of keys)
    reqs,             \* the download_by_token requests, each at its await point
    gen,              \* per client, the generate_token requests at their await point
    lists,            \* per client, the list_files requests at their await point
    logins,           \* per client, the login requests at their await point
    creates,          \* the create_user calls whose INSERT has run, before they return
    resp,             \* the last response sent by a handler
    path_in,          \* input of the path functions (path specification)
    path_out          \* their result (path specification)

vars == <<fs, users, download_files, download_tokens, sessions, reqs, gen,
          lists, logins, creates, resp, path_in, path_out>>

-----------------------------------------------------------------------------
(* Bounds *)

MaxPathLen   == 4     \* longest input path of the path specification
MaxLinkDepth == 2     \* symbolic links followed while resolving one path
MaxReqs      == 2     \* download_by_token requests in one behaviour
MaxTokens    == 2     \* distinct uuid values, so rows of download_tokens
NumClients   == 1     \* browsers, each with its own session cookie
MaxUsers     == 5     \* distinct uuid values for users, so rows of users
MaxLogins    == 2     \* login requests one browser has under way at once
MaxInFlight  == 2     \* list_files, generate_token requests of one browser at once

-----------------------------------------------------------------------------
(* Strings *)

NUL == "<NUL>"
SEP == "/"

RECURSIVE Name(_)
\* the string spelled by a sequence of characters
Name(cs) == IF cs = <<>> THEN "" ELSE Head(cs) \o Name(Tail(cs))

RECURSIVE trim_start_matches(_, _)
\* str::trim_start_matches(c): drop every leading c
trim_start_matches(cs, c) ==
    IF cs # <<>> /\ Head(cs) = c THEN trim_start_matches(Tail(cs), c) ELSE cs

contains(cs, c) == \E i \in 1..Len(cs) : cs[i] = c

RECURSIVE SplitFrom(_, _)
\* the segments of cs between separators, as character sequences; acc is the
\* segment being read
SplitFrom(cs, acc) ==
    IF cs = <<>> THEN <<acc>>
    ELSE IF Head(cs) = SEP THEN <<acc>> \o SplitFrom(Tail(cs), <<>>)
    ELSE SplitFrom(Tail(cs), Append(acc, Head(cs)))

Split(cs) == SplitFrom(cs, <<>>)

-----------------------------------------------------------------------------
(* std::path::Path::components on Unix, for a path without a leading        *)
(* separator: empty segments and "." segments are normalised away, except a *)
(* "." that starts the path; ".." is ParentDir; a leading separator is      *)
(* RootDir.                                                                 *)

RECURSIVE ComponentsOf(_, _)
ComponentsOf(segs, first) ==
    IF segs = <<>> THEN <<>>
    ELSE LET s    == Head(segs)
             rest == ComponentsOf(Tail(segs), FALSE)
         IN  IF s = <<>> THEN rest
             ELSE IF s = <<".">> THEN
                 (IF first THEN <<[kind |-> "CurDir", name |-> "."]>> \o rest
                  ELSE rest)
             ELSE IF s = <<".", ".">> THEN
                 <<[kind |-> "ParentDir", name |-> ".."]>> \o rest
             ELSE <<[kind |-> "Normal", name |-> Name(s)]>> \o rest

components(cs) ==
    IF cs # <<>> /\ Head(cs) = SEP
    THEN <<[kind |-> "RootDir", name |-> "/"]>>
             \o ComponentsOf(Split(trim_start_matches(cs, SEP)), FALSE)
    ELSE ComponentsOf(Split(cs), TRUE)

-----------------------------------------------------------------------------
(* sanitize_path: Some(path) or None *)

NoPath == [some |-> FALSE, path |-> <<>>]
SomePath(p) == [some |-> TRUE, path |-> p]

\* a slip: only a path that begins with ".." is turned away
sanitize_path_first_only(raw) ==
    LET path == trim_start_matches(raw, SEP) IN
    IF path = <<>> THEN NoPath
    ELSE IF contains(path, NUL) THEN NoPath
    ELSE LET cs == components(path) IN
         IF cs # <<>> /\ cs[1].kind \notin {"Normal", "CurDir"}
         THEN NoPath
         ELSE SomePath(path)

sanitize_path(raw) ==
    LET path == trim_start_matches(raw, SEP) IN
    IF path = <<>> THEN NoPath
    ELSE IF contains(path, NUL) THEN NoPath
    ELSE LET cs == components(path) IN
         IF \E i \in 1..Len(cs) : cs[i].kind \notin {"Normal", "CurDir"}
         THEN NoPath
         ELSE SomePath(path)

-----------------------------------------------------------------------------
(* The filesystem.  A node is a directory, a regular file (readable or not, *)
(* with its contents named by data) or a symbolic link with an absolute     *)
(* target.                                                                  *)

Dir        == [kind |-> "dir",  readable |-> TRUE, target |-> <<>>, data |-> ""]
File(d)    == [kind |-> "file", readable |-> TRUE, target |-> <<>>, data |-> d]
Locked(d)  == [kind |-> "file", readable |-> FALSE, target |-> <<>>, data |-> d]
Link(t)    == [kind |-> "link", readable |-> TRUE, target |-> t, data |-> ""]

\* the working directory of the server process (rustServer/)
Cwd == <<"srv", "app">>

\* const DOWNLOADS_DIR: &str = "../downloads"
DOWNLOADS_DIR == <<".", ".", "/", "d", "o", "w", "n", "l", "o", "a", "d", "s">>

\* what lies outside the downloads directory
Outside ==
       (<<>> :> Dir) @@ (<<"srv">> :> Dir) @@ (<<"srv", "app">> :> Dir)
    @@ (<<"etc">> :> Dir) @@ (<<"etc", "p">> :> File("secret"))

\* the tree of downloadable files, placed at directory r
Tree(r) ==
       (r :> Dir)
    @@ (Append(r, "a") :> File("A"))
    @@ (Append(r, "b") :> File("B"))
    @@ (Append(r, "d") :> Dir)
    @@ (r \o <<"d", "a">> :> File("DA"))
    @@ (Append(r, "x") :> Locked("X"))
    @@ (Append(r, "i") :> Link(Append(r, "a")))
    @@ (Append(r, "l") :> Link(<<"etc", "p">>))

\* ../downloads is a directory
FsPlain == Outside @@ Tree(<<"srv", "downloads">>)
\* ../downloads is a symbolic link to /data
FsLinkedRoot ==
    Outside @@ (<<"srv", "downloads">> :> Link(<<"data">>)) @@ Tree(<<"data">>)
\* ../downloads does not exist
FsNoRoot == Outside

FsChoices == {FsPlain, FsLinkedRoot, FsNoRoot}

IoErr     == [ok |-> FALSE, path |-> <<>>]
IoOk(p)   == [ok |-> TRUE, path |-> p]

Parent(p) == IF p = <<>> THEN <<>> ELSE SubSeq(p, 1, Len(p) - 1)

RECURSIVE Resolve(_, _, _, _)
\* realpath: walk the segments from directory cur, following links
Resolve(f, cur, segs, fuel) ==
    IF segs = <<>> THEN IoOk(cur)
    ELSE LET s    == Head(segs)
             rest == Tail(segs)
         IN  IF s = "" \/ s = "." THEN Resolve(f, cur, rest, fuel)
             ELSE IF s = ".." THEN Resolve(f, Parent(cur), rest, fuel)
             ELSE LET nxt == Append(cur, s) IN
                  IF nxt \notin DOMAIN f THEN IoErr
                  ELSE IF f[nxt].kind = "link" THEN
                      (IF fuel = 0 THEN IoErr
                       ELSE LET t == Resolve(f, <<>>, f[nxt].target, fuel - 1) IN
                            IF ~t.ok THEN IoErr
                            ELSE IF f[t.path].kind # "dir" /\ rest # <<>> THEN IoErr
                            ELSE Resolve(f, t.path, rest, fuel))
                  ELSE IF f[nxt].kind # "dir" /\ rest # <<>> THEN IoErr
                  ELSE Resolve(f, nxt, rest, fuel)

SegNames(cs) == LET segs == Split(cs) IN [i \in 1..Len(segs) |-> Name(segs[i])]

\* std::fs::canonicalize of a path string, relative paths taken from Cwd
canonicalize(f, cs) ==
    IF cs = <<>> \/ contains(cs, NUL) THEN IoErr
    ELSE IF Head(cs) = SEP THEN Resolve(f, <<>>, SegNames(cs), MaxLinkDepth)
    ELSE Resolve(f, Cwd, SegNames(cs), MaxLinkDepth)

\* Path::join: an absolute right-hand side replaces the base
join(base, p) ==
    IF p # <<>> /\ Head(p) = SEP THEN p
    ELSE IF base # <<>> /\ base[Len(base)] = SEP THEN base \o p
    ELSE base \o <<SEP>> \o p

\* Path::starts_with: component-wise prefix
starts_with(p, base) ==
    /\ Len(base) <= Len(p)
    /\ SubSeq(p, 1, Len(base)) = base

-----------------------------------------------------------------------------
(* Responses *)

NoFile == <<>>

\* a response; calls lists the filesystem calls made on the way to it
Reply(status, body) ==
    [status |-> status, body |-> body, streamed |-> FALSE, file |-> NoFile,
     data |-> "", calls |-> <<>>]
Stream(p, d) ==
    [status |-> 200, body |-> "file", streamed |-> TRUE, file |-> p, data |-> d,
     calls |-> <<>>]
\* the response out, reached after the filesystem calls cs
After(cs, out) == [out EXCEPT !.calls = cs \o out.calls]
Canonicalize(cs) == [call |-> "canonicalize", path |-> cs]
Open(p)          == [call |-> "open", path |-> p]

\* NamedFile::open(canonical_file) and into_response
open_file(f, p) ==
    After(<<Open(p)>>,
          IF ~f[p].readable THEN Reply(500, "Error reading file")
          ELSE IF f[p].kind = "dir" THEN Reply(200, "unreadable stream")
          ELSE Stream(p, f[p].data))

\* a slip: the containment check is left out
serve_file_unchecked(f, requested_path) ==
    LET safe_path == sanitize_path(requested_path) IN
    IF ~safe_path.some THEN Reply(400, "Invalid file path")
    ELSE
        LET file_path           == join(DOWNLOADS_DIR, safe_path.path)
            canonical_downloads == canonicalize(f, DOWNLOADS_DIR)
            canonical_file      == canonicalize(f, file_path)
            root_call           == <<Canonicalize(DOWNLOADS_DIR)>>
            both_calls          == root_call \o <<Canonicalize(file_path)>>
        IN  IF ~canonical_downloads.ok
                THEN After(root_call, Reply(500, "Downloads directory not configured"))
            ELSE IF ~canonical_file.ok
                THEN After(both_calls, Reply(404, "File not found"))
            ELSE After(both_calls, open_file(f, canonical_file.path))

\* a slip: the path is looked up on the filesystem before it is sanitized
serve_file_late_sanitize(f, requested_path) ==
    LET safe_path           == sanitize_path(requested_path)
        raw_path            == join(DOWNLOADS_DIR, trim_start_matches(requested_path, SEP))
        canonical_downloads == canonicalize(f, DOWNLOADS_DIR)
        canonical_file      == canonicalize(f, raw_path)
        root_call           == <<Canonicalize(DOWNLOADS_DIR)>>
        both_calls          == root_call \o <<Canonicalize(raw_path)>>
    IN  IF ~canonical_downloads.ok
            THEN After(root_call, Reply(500, "Downloads directory not configured"))
        ELSE IF ~canonical_file.ok
            THEN After(both_calls, Reply(404, "File not found"))
        ELSE IF ~safe_path.some
            THEN After(both_calls, Reply(400, "Invalid file path"))
        ELSE IF ~starts_with(canonical_file.path, canonical_downloads.path)
            THEN After(both_calls, Reply(403, "Access denied"))
        ELSE After(both_calls, open_file(f, canonical_file.path))

\* serve_file(req, requested_path)
serve_file(f, requested_path) ==
    LET safe_path == sanitize_path(requested_path) IN
    IF ~safe_path.some THEN Reply(400, "Invalid file path")
    ELSE
        LET file_path           == join(DOWNLOADS_DIR, safe_path.path)
            canonical_downloads == canonicalize(f, DOWNLOADS_DIR)
            canonical_file      == canonicalize(f, file_path)
            root_call           == <<Canonicalize(DOWNLOADS_DIR)>>
            both_calls          == root_call \o <<Canonicalize(file_path)>>
        IN  IF ~canonical_downloads.ok
                THEN After(root_call, Reply(500, "Downloads directory not configured"))
            ELSE IF ~canonical_file.ok
                THEN After(both_calls, Reply(404, "File not found"))
            ELSE IF ~starts_with(canonical_file.path, canonical_downloads.path)
                THEN After(both_calls, Reply(403, "Access denied"))
            ELSE After(both_calls, open_file(f, canonical_file.path))

-----------------------------------------------------------------------------
(* The path specification: the path functions applied to every short path   *)

PathChars == {SEP, ".", "a", "d", "l", NUL}

RECURSIVE SeqsUpTo(_, _)
SeqsUpTo(S, n) ==
    IF n = 0 THEN {<<>>}
    ELSE LET shorter == SeqsUpTo(S, n - 1) IN
         shorter \cup {Append(q, c) : q \in {r \in shorter : Len(r) = n - 1}, c \in S}

\* the paths of the unit tests of downloads.rs
TestPaths ==
    { <<"f","i","l","e",".","z","i","p">>,
      <<"n","e","s","t","e","d","/","d","e","e","p","/","f","i","l","e",".","p","d","f">>,
      <<"/","a","b","s","o","l","u","t","e","/","p","a","t","h">>,
      <<".",".","/","e","t","c","/","p","a","s","s","w","d">>,
      <<"f","o","o","/",".",".","/","b","a","r">> }

PathInputs == SeqsUpTo(PathChars, MaxPathLen) \cup TestPaths

NotRun == [op |-> "none", some |-> FALSE, path |-> <<>>, reply |-> Reply(0, "")]

-----------------------------------------------------------------------------
(* Passwords: argon2 with a per-user salt *)

Digest(salt, password) == <<salt, password>>

\* hash_password: the PHC string of the digest under a fresh salt
hash_password(password, salt) ==
    [phc |-> TRUE, salt |-> salt, digest |-> Digest(salt, password)]

\* a stored string that PasswordHash::new cannot parse
MalformedHash == [phc |-> FALSE, salt |-> "", digest |-> <<>>]

\* Argon2::verify_password
verify_password(password, parsed_hash) ==
    Digest(parsed_hash.salt, password) = parsed_hash.digest

-----------------------------------------------------------------------------
(* Tables *)

Clients   == 1..NumClients
Uuids     == 1..MaxTokens
\* a row's id is a uuid of its own, kept apart from the token strings
RowId(n)  == <<"id", n>>
Usernames == {"alice", "bob", "carol", "nobody"}
Passwords == {"p1", "p2"}

InitUsers ==
    { [id |-> "u1", username |-> "alice", password_hash |-> hash_password("p1", "s1")],
      [id |-> "u2", username |-> "bob",   password_hash |-> hash_password("p2", "s2")],
      [id |-> "u3", username |-> "carol", password_hash |-> MalformedHash] }

FileRow(id, path, protected) ==
    [id |-> id, file_path |-> path, display_name |-> id, description |-> "",
     is_protected |-> protected]

\* the catalogs the administrator may have set up (rows in insertion order)
FirstRows ==
    { <<>>, <<FileRow("fA", <<"a">>, 0)>>, <<FileRow("fA", <<"a">>, 1)>> }
SecondRows ==
    { <<>>, <<FileRow("fB", <<"b">>, 0)>>, <<FileRow("fB", <<"b">>, 1)>> }
CatalogChoices == {a \o b : a \in FirstRows, b \in SecondRows}

\* catalogs whose protected file cannot be streamed
BrokenRows ==
    { <<FileRow("fB", <<"l">>, 1)>>,                       \* a link out of the root
      <<FileRow("fB", <<"x">>, 1)>>,                       \* an unreadable file
      <<FileRow("fB", <<"g", "o", "n", "e">>, 1)>>,        \* a file that is gone
      <<FileRow("fB", <<".", ".", "/", "b">>, 1)>> }       \* a malformed path
\* the catalogs of the token requests: one public and one protected file, or
\* a single protected file
TokenCatalogs ==
    { <<FileRow("fA", <<"a">>, 0), FileRow("fB", <<"b">>, 1)>>,
      <<FileRow("fA", <<"a">>, 1)>> }
RedeemCatalogs ==
    { <<FileRow("fA", <<"a">>, 0), FileRow("fB", <<"b">>, 1)>>,
      <<FileRow("fA", <<"a">>, 1), FileRow("fB", <<"b">>, 1)>> }
        \cup {<<FileRow("fA", <<"a">>, 0)>> \o b : b \in BrokenRows}

FileIds == {"fA", "fB", "fZ"}

Rows(table) == {table[i] : i \in 1..Len(table)}

\* session.get::<String>(key).ok().flatten(): "" stands for None
NoSession == [user_id |-> "", username |-> ""]

get_user_id(session) == session.user_id

-----------------------------------------------------------------------------
(* Responses of the handlers other than download_by_token *)

Answer(op, client, status, body) ==
    [op |-> op, client |-> client, status |-> status, body |-> body,
     files |-> <<>>, id |-> "", username |-> "", token |-> 0,
     download_url |-> [prefix |-> "", path |-> <<>>, token |-> 0],
     arg |-> "", password |-> "", store |-> "ok",
     streamed |-> FALSE, file |-> NoFile, data |-> "", path |-> <<>>]

NoAnswer == Answer("none", 0, 0, "")

-----------------------------------------------------------------------------
(* auth.rs *)

\* a slip: the session is purged when the credentials are turned down
login_purge_on_failure(table, session, username, password, fail) ==
    LET found == {u \in table : u.username = username} IN
    IF fail = "select" THEN
        [session |-> session, status |-> 500, body |-> "Internal error"]
    ELSE IF found = {} THEN
        [session |-> NoSession, status |-> 401, body |-> "Invalid credentials"]
    ELSE LET user == CHOOSE u \in found : TRUE IN
         IF ~user.password_hash.phc THEN
             [session |-> session, status |-> 500, body |-> "Internal error"]
         ELSE IF ~verify_password(password, user.password_hash) THEN
             [session |-> NoSession, status |-> 401, body |-> "Invalid credentials"]
         ELSE IF fail = "user_id" THEN
             [session |-> session, status |-> 500, body |-> "Session error"]
         ELSE
             [session |-> [user_id |-> user.id,
                           username |-> IF fail = "username" THEN session.username
                                        ELSE user.username],
              status |-> 200, body |-> "Logged in successfully"]

\* a slip: a stored hash that does not parse is answered like a mismatch
login_malformed_is_mismatch(table, session, username, password, fail) ==
    LET found == {u \in table : u.username = username} IN
    IF fail = "select" THEN
        [session |-> session, status |-> 500, body |-> "Internal error"]
    ELSE IF found = {} THEN
        [session |-> session, status |-> 401, body |-> "Invalid credentials"]
    ELSE LET user == CHOOSE u \in found : TRUE IN
         IF ~user.password_hash.phc THEN
             [session |-> session, status |-> 401, body |-> "Invalid credentials"]
         ELSE IF ~verify_password(password, user.password_hash) THEN
             [session |-> session, status |-> 401, body |-> "Invalid credentials"]
         ELSE IF fail = "user_id" THEN
             [session |-> session, status |-> 500, body |-> "Session error"]
         ELSE
             [session |-> [user_id |-> user.id,
                           username |-> IF fail = "username" THEN session.username
                                        ELSE user.username],
              status |-> 200, body |-> "Logged in successfully"]

\* a slip: the session is given the user_id and not the username
login_user_id_only(table, session, username, password, fail) ==
    LET found == {u \in table : u.username = username} IN
    IF fail = "select" THEN
        [session |-> session, status |-> 500, body |-> "Internal error"]
    ELSE IF found = {} THEN
        [session |-> session, status |-> 401, body |-> "Invalid credentials"]
    ELSE LET user == CHOOSE u \in found : TRUE IN
         IF ~user.password_hash.phc THEN
             [session |-> session, status |-> 500, body |-> "Internal error"]
         ELSE IF ~verify_password(password, user.password_hash) THEN
             [session |-> session, status |-> 401, body |-> "Invalid credentials"]
         ELSE IF fail = "user_id" THEN
             [session |-> session, status |-> 500, body |-> "Session error"]
         ELSE
             [session |-> [session EXCEPT !.user_id = user.id],
              status |-> 200, body |-> "Logged in successfully"]

\* a slip: an answer of its own for a username that is not in the table
login_user_not_found(table, session, username, password, fail) ==
    LET found == {u \in table : u.username = username} IN
    IF fail = "select" THEN
        [session |-> session, status |-> 500, body |-> "Internal error"]
    ELSE IF found = {} THEN
        [session |-> session, status |-> 404, body |-> "User not found"]
    ELSE LET user == CHOOSE u \in found : TRUE IN
         IF ~user.password_hash.phc THEN
             [session |-> session, status |-> 500, body |-> "Internal error"]
         ELSE IF ~verify_password(password, user.password_hash) THEN
             [session |-> session, status |-> 401, body |-> "Invalid credentials"]
         ELSE IF fail = "user_id" THEN
             [session |-> session, status |-> 500, body |-> "Session error"]
         ELSE
             [session |-> [user_id |-> user.id,
                           username |-> IF fail = "username" THEN session.username
                                        ELSE user.username],
              status |-> 200, body |-> "Logged in successfully"]

\* a slip: is_ok() for is_err() on the result of verify_password
login_inverted_check(table, session, username, password, fail) ==
    LET found == {u \in table : u.username = username} IN
    IF fail = "select" THEN
        [session |-> session, status |-> 500, body |-> "Internal error"]
    ELSE IF found = {} THEN
        [session |-> session, status |-> 401, body |-> "Invalid credentials"]
    ELSE LET user == CHOOSE u \in found : TRUE IN
         IF ~user.password_hash.phc THEN
             [session |-> session, status |-> 500, body |-> "Internal error"]
         ELSE IF verify_password(password, user.password_hash) THEN
             [session |-> session, status |-> 401, body |-> "Invalid credentials"]
         ELSE IF fail = "user_id" THEN
             [session |-> session, status |-> 500, body |-> "Session error"]
         ELSE
             [session |-> [user_id |-> user.id,
                           username |-> IF fail = "username" THEN session.username
                                        ELSE user.username],
              status |-> 200, body |-> "Logged in successfully"]

\* login: the response and the session it leaves.  fail tells which call, if
\* any, fails: the SELECT ("select"), session.insert("user_id", ..) ("user_id")
\* or session.insert("username", ..) ("username"); "ok" is none
login(table, session, username, password, fail) ==
    LET found == {u \in table : u.username = username} IN
    IF fail = "select" THEN
        [session |-> session, status |-> 500, body |-> "Internal error"]
    ELSE IF found = {} THEN
        [session |-> session, status |-> 401, body |-> "Invalid credentials"]
    ELSE LET user == CHOOSE u \in found : TRUE IN
         IF ~user.password_hash.phc THEN
             [session |-> session, status |-> 500, body |-> "Internal error"]
         ELSE IF ~verify_password(password, user.password_hash) THEN
             [session |-> session, status |-> 401, body |-> "Invalid credentials"]
         ELSE IF fail = "user_id" THEN
             [session |-> session, status |-> 500, body |-> "Session error"]
         ELSE
             [session |-> [user_id |-> user.id,
                           username |-> IF fail = "username" THEN session.username
                                        ELSE user.username],
              status |-> 200, body |-> "Logged in successfully"]

\* a slip: session.remove("username") for session.purge()
logout_remove_username(session) == [session EXCEPT !.username = ""]

\* logout: session.purge()
logout(session) == NoSession

\* me
me(session) ==
    IF session.user_id # "" /\ session.username # ""
    THEN [status |-> 200, body |-> "", id |-> session.user_id,
          username |-> session.username]
    ELSE [status |-> 401, body |-> "Not authenticated", id |-> "", username |-> ""]

\* Uuid::new_v4().to_string() as the id of a user
UserId(n) == "u" \o ToString(n)

\* a slip: the schema without UNIQUE on the username column
can_insert_user_no_unique(table, row) ==
    \A u \in table : u.id # row.id

\* INSERT INTO users: the primary key and the UNIQUE username decide whether
\* the row goes in
can_insert_user(table, row) ==
    \A u \in table : u.id # row.id /\ u.username # row.username

\* create_user: the result and the table users it leaves.  id is the
\* Uuid::new_v4() value and salt the SaltString::generate value
create_user(table, username, password, id, salt, db_ok) ==
    LET row == [id |-> id, username |-> username,
                password_hash |-> hash_password(password, salt)]
    IN  IF db_ok /\ can_insert_user(table, row)
        THEN [users |-> table \cup {row}, ok |-> TRUE, id |-> id]
        ELSE [users |-> table, ok |-> FALSE, id |-> ""]

-----------------------------------------------------------------------------
(* downloads.rs: list_files and generate_token *)

\* a row of download_files as the DownloadFile sent to the client
DownloadFile(row) ==
    [id |-> row.id, file_path |-> row.file_path, display_name |-> row.display_name,
     description |-> row.description, is_protected |-> (row.is_protected # 0)]

\* a slip: the same statement on both branches
select_files_all(table, is_authenticated) == table

\* the two SELECT statements of list_files
select_files(table, is_authenticated) ==
    IF is_authenticated THEN table
    ELSE SelectSeq(table, LAMBDA row : row.is_protected = 0)

\* list_files from its SELECT on (lines 36-70), is_authenticated being what
\* line 34 read from the session
list_files_answer(table, is_authenticated, db_ok) ==
    LET rows == select_files(table, is_authenticated)
    IN  IF db_ok
        THEN [status |-> 200, body |-> "",
              files |-> [i \in 1..Len(rows) |-> DownloadFile(rows[i])]]
        ELSE [status |-> 500, body |-> "Error listing files", files |-> <<>>]

\* list_files when nothing runs between its reading of the session and its
\* answer
list_files(table, session, db_ok) ==
    list_files_answer(table, get_user_id(session) # "", db_ok)

\* a slip: the schema without UNIQUE on the token column
can_insert_token_no_unique(tokens, files, us, row) ==
    /\ \A t \in tokens : t.id # row.id
    /\ \E f \in Rows(files) : f.id = row.file_id
    /\ \E u \in us : u.id = row.user_id

\* INSERT INTO download_tokens: the primary key, the UNIQUE token and the two
\* foreign keys decide whether the row goes in
can_insert_token(tokens, files, us, row) ==
    /\ \A t \in tokens : t.id # row.id /\ t.token # row.token
    /\ \E f \in Rows(files) : f.id = row.file_id
    /\ \E u \in us : u.id = row.user_id

NoUrl == [prefix |-> "", path |-> <<>>, token |-> 0]

\* what a part of generate_token hands on: either the response (done) or
\* the user_id read from the session, for the parts that follow
Answered(status, body, download_url) ==
    [done |-> TRUE, status |-> status, body |-> body,
     download_url |-> download_url, user_id |-> ""]
Pending(user_id) ==
    [done |-> FALSE, status |-> 0, body |-> "", download_url |-> NoUrl,
     user_id |-> user_id]

\* a slip: the caller is not asked for a session user
generate_token_arrive_no_check(session) == Pending(get_user_id(session))

\* generate_token up to its first await (lines 78-81): the session is read
\* and a caller without a user_id is answered 401
generate_token_arrive(session) ==
    LET user_id == get_user_id(session) IN
    IF user_id = "" THEN Answered(401, "Authentication required", NoUrl)
    ELSE Pending(user_id)

\* a slip: no branch for public files, a token row is made for every file
generate_token_no_public_branch(files, user_id, file_id, store) ==
    LET found == {f \in Rows(files) : f.id = file_id} IN
    IF store = "select" THEN Answered(500, "Database error", NoUrl)
    ELSE IF found = {} THEN Answered(404, "File not found", NoUrl)
    ELSE Pending(user_id)

\* generate_token from the SELECT to the INSERT (lines 84-106): the catalog
\* row is fetched and the request is answered unless the file is protected.
\* store tells whether the SELECT fails ("select") or not.
generate_token_select(files, user_id, file_id, store) ==
    LET found == {f \in Rows(files) : f.id = file_id} IN
    IF store = "select" THEN Answered(500, "Database error", NoUrl)
    ELSE IF found = {} THEN Answered(404, "File not found", NoUrl)
    ELSE LET file == CHOOSE f \in found : TRUE IN
         IF file.is_protected = 0 THEN
             Answered(200, "", [prefix |-> "/downloads/public/",
                                path |-> file.file_path, token |-> 0])
         ELSE Pending(user_id)

\* the INSERT of generate_token (lines 109-120): the table download_tokens
\* it leaves and whether it went in. token and token_id are the two
\* Uuid::new_v4() values, user_id is the one read at line 78; store tells
\* whether the INSERT fails ("insert") or not.
insert_token(files, tokens, us, user_id, file_id, token, token_id, store) ==
    LET row == [id |-> RowId(token_id), token |-> token, file_id |-> file_id,
                user_id |-> user_id, used |-> 0]
    IN  IF store # "insert" /\ can_insert_token(tokens, files, us, row)
        THEN [tokens |-> tokens \cup {row}, ok |-> TRUE]
        ELSE [tokens |-> tokens, ok |-> FALSE]

\* the response of generate_token to the result of its INSERT (lines 122-131)
generate_token_respond(ok, token) ==
    IF ok THEN
        [status |-> 200, body |-> "", token |-> token,
         download_url |-> [prefix |-> "/downloads/token/",
                           path |-> <<>>, token |-> token]]
    ELSE
        [status |-> 500, body |-> "Failed to generate token",
         token |-> 0, download_url |-> NoUrl]

\* generate_token from the INSERT on (lines 108-131), when nothing runs
\* between the INSERT and the response: the response and the table
\* download_tokens it leaves
generate_token_insert(files, tokens, us, user_id, file_id, token, token_id, store) ==
    LET done == insert_token(files, tokens, us, user_id, file_id, token,
                             token_id, store)
        out  == generate_token_respond(done.ok, token)
    IN  [tokens |-> done.tokens, status |-> out.status, body |-> out.body,
         token |-> out.token, download_url |-> out.download_url]

\* generate_token when nothing runs between its statements: the response
\* and the table download_tokens it leaves. store tells which statement, if
\* any, the store fails ("ok", "select", "insert").
generate_token(files, tokens, us, session, file_id, token, token_id, store) ==
    LET first  == generate_token_arrive(session)
        second == IF first.done THEN first
                  ELSE generate_token_select(files, first.user_id, file_id, store)
    IN
    IF second.done THEN
        [tokens |-> tokens, status |-> second.status, body |-> second.body,
         token |-> 0, download_url |-> second.download_url]
    ELSE generate_token_insert(files, tokens, us, second.user_id, file_id,
                               token, token_id, store)

-----------------------------------------------------------------------------
(* downloads.rs: download_by_token, one step per store statement *)

\* a slip: the SELECT without its WHERE clause
select_token_no_where(files, tokens, token) ==
    { [token_id |-> t.id, file_path |-> f.file_path, used |-> t.used] :
        <<t, f>> \in {p \in tokens \X Rows(files) : p[1].file_id = p[2].id} }

\* SELECT dt.id, df.file_path, dt.used FROM download_tokens dt
\*   JOIN download_files df ON dt.file_id = df.id WHERE dt.token = ?
select_token(files, tokens, token) ==
    { [token_id |-> t.id, file_path |-> f.file_path, used |-> t.used] :
        <<t, f>> \in {p \in tokens \X Rows(files) :
                         p[1].token = token /\ p[1].file_id = p[2].id} }

\* a slip: the UPDATE without its WHERE clause
mark_used_no_where(tokens, token_id) == {[t EXCEPT !.used = 1] : t \in tokens}

\* a slip: the redeemed row is deleted instead of marked
mark_used_delete(tokens, token_id) == {t \in tokens : t.id # token_id}

\* UPDATE download_tokens SET used = 1 WHERE id = ?
mark_used(tokens, token_id) ==
    {IF t.id = token_id THEN [t EXCEPT !.used = 1] ELSE t : t \in tokens}

Reqs == 1..MaxReqs

Idle ==
    [pc |-> "idle", token |-> 0, token_id |-> <<>>, file_path |-> <<>>,
     lookup_ok |-> TRUE, mark_ok |-> TRUE, served |-> FALSE,
     after_stream |-> FALSE, after_failed |-> FALSE, reply |-> Reply(0, "")]

\* the requests for the same token whose serve step is over
Finished(token) ==
    {q \in Reqs : reqs[q].pc = "done" /\ reqs[q].served /\ reqs[q].token = token}

\* lines 139-166: the request arrives, the token is looked up and checked
Lookup(r, token, db_ok) ==
    /\ reqs[r].pc = "idle"
    /\ IF r = 1 THEN TRUE ELSE reqs[r - 1].pc # "idle"
    /\ LET found == select_token(download_files, download_tokens, token)
           me_   == [reqs[r] EXCEPT
                        !.token = token, !.lookup_ok = db_ok,
                        !.after_stream =
                            \E q \in Finished(token) : reqs[q].reply.streamed,
                        !.after_failed =
                            \E q \in Finished(token) : ~reqs[q].reply.streamed]
       IN  reqs' = [reqs EXCEPT ![r] =
              IF ~db_ok THEN
                  [me_ EXCEPT !.pc = "done", !.reply = Reply(500, "Database error")]
              ELSE IF found = {} THEN
                  [me_ EXCEPT !.pc = "done",
                              !.reply = Reply(404, "Invalid or expired token")]
              ELSE LET data == CHOOSE d \in found : TRUE IN
                   IF data.used # 0 THEN
                       [me_ EXCEPT !.pc = "done",
                                   !.reply = Reply(410, "Token has already been used")]
                   ELSE
                       [me_ EXCEPT !.pc = "mark", !.token_id = data.token_id,
                                   !.file_path = data.file_path]]
    /\ UNCHANGED <<fs, users, download_files, download_tokens, sessions, resp,
                   path_in, path_out, gen, logins, lists, creates>>

\* lines 168-172: the update, whose result is dropped
Mark(r, db_ok) ==
    /\ reqs[r].pc = "mark"
    /\ download_tokens' =
           IF db_ok THEN mark_used(download_tokens, reqs[r].token_id)
           ELSE download_tokens
    /\ reqs' = [reqs EXCEPT ![r].pc = "serve", ![r].mark_ok = db_ok]
    /\ UNCHANGED <<fs, users, download_files, sessions, resp, path_in, path_out, gen, logins, lists, creates>>

\* lines 174-175: serve_file(&req, &file_path)
Serve(r) ==
    /\ reqs[r].pc = "serve"
    /\ reqs' = [reqs EXCEPT ![r].pc = "done", ![r].served = TRUE,
                            ![r].reply = serve_file(fs, reqs[r].file_path)]
    /\ UNCHANGED <<fs, users, download_files, download_tokens, sessions, resp,
                   path_in, path_out, gen, logins, lists, creates>>

-----------------------------------------------------------------------------
(* The other handlers *)

\* the i-th element of a sequence taken out
Without(q, i) == SubSeq(q, 1, i - 1) \o SubSeq(q, i + 1, Len(q))

\* a login request that has arrived with session and waits for its SELECT
NewLogin(session) == [pc |-> "select", session |-> session, table |-> {}]

\* lines 29-38: a login request arrives with the session of its cookie and
\* waits for the SELECT. logins[c] holds the login requests of browser c under
\* way, in the order of their arrival, each with the await it waits at
\* ("select", then "answer"), the session it arrived with and, once the store
\* has run the SELECT, the table users the SELECT ran on; n is the number of
\* them that the browser may have under way at once.
LoginArrive(c, n) ==
    /\ Len(logins[c]) < n
    /\ logins' = [logins EXCEPT ![c] = Append(@, NewLogin(sessions[c]))]
    /\ UNCHANGED <<fs, users, download_files, download_tokens, sessions, reqs, gen,
                   lists, creates, resp, path_in, path_out>>

\* lines 33-38: the store runs the SELECT of the i-th login request of browser
\* c on users as it is at that moment; the handler has not been polled again
\* yet. The body of the request and the failing of the statement come into
\* play when the request is answered, so they are drawn there: the SELECT is
\* kept as the table it ran on.
LoginSelect(c, i) ==
    /\ i <= Len(logins[c])
    /\ logins[c][i].pc = "select"
    /\ logins' = [logins EXCEPT ![c][i] =
                     [@ EXCEPT !.pc = "answer", !.table = users]]
    /\ UNCHANGED <<fs, users, download_files, download_tokens, sessions, reqs, gen,
                   lists, creates, resp, path_in, path_out>>

\* lines 40-97: the handler of the i-th login request of browser c is polled
\* with the result of its SELECT and the request is answered. The handler
\* works on the session the request arrived with; the browser is given that
\* session anew when the session counts as changed, and keeps the one it has
\* otherwise. Every 200 has inserted user_id, which changes the session.
\* Whether a session.insert that fails also marks the session changed is
\* decided in the session library, not in this repository: marked tells which
\* of the two it did. fail tells which call, if any, failed: the SELECT or a
\* session.insert.
LoginAnswer(c, i, username, password, fail, marked) ==
    /\ i <= Len(logins[c])
    /\ logins[c][i].pc = "answer"
    /\ LET x       == logins[c][i]
           out     == login(x.table, x.session, username, password, fail)
           changed == \/ out.status = 200
                      \/ out.session # x.session
                      \/ out.body = "Session error" /\ marked
       IN  /\ sessions' = [sessions EXCEPT ![c] =
                              IF changed THEN out.session ELSE sessions[c]]
           /\ resp' = [Answer("login", c, out.status, out.body) EXCEPT
                           !.arg = username, !.password = password, !.store = fail]
    /\ logins' = [logins EXCEPT ![c] = Without(@, i)]
    /\ UNCHANGED <<fs, users, download_files, download_tokens, reqs, gen, lists,
                   creates, path_in, path_out>>

Logout(c) ==
    /\ sessions' = [sessions EXCEPT ![c] = logout(sessions[c])]
    /\ resp' = Answer("logout", c, 200, "Logged out successfully")
    /\ UNCHANGED <<fs, users, download_files, download_tokens, reqs,
                   path_in, path_out, gen, logins, lists, creates>>

Me(c) ==
    LET out == me(sessions[c]) IN
    /\ resp' = [Answer("me", c, out.status, out.body) EXCEPT
                    !.id = out.id, !.username = out.username]
    /\ UNCHANGED <<fs, users, download_files, download_tokens, sessions, reqs,
                   path_in, path_out, gen, logins, lists, creates>>

\* lines 140-148: a create_user call draws its id, hashes the password and
\* the store runs its INSERT; the call has not been polled again yet. creates
\* holds the calls in that state, in the order of their INSERTs, each with
\* what the INSERT gave; n is the number of them at once.
CreateUserInsert(username, password, id, salt, db_ok, n) ==
    LET out == create_user(users, username, password, id, salt, db_ok) IN
    /\ Len(creates) < n
    /\ users' = out.users
    /\ creates' = Append(creates, [username |-> username, password |-> password,
                                   ok |-> out.ok, id |-> out.id,
                                   store |-> IF db_ok THEN "ok" ELSE "insert"])
    /\ UNCHANGED <<fs, download_files, download_tokens, sessions, reqs, gen, lists,
                   logins, resp, path_in, path_out>>

\* lines 148-150: the i-th of these calls is polled again and returns the
\* result of its INSERT
CreateUserReturn(i) ==
    /\ i <= Len(creates)
    /\ LET x == creates[i] IN
       resp' = [Answer("create_user", 0, 0, IF x.ok THEN "Ok" ELSE "Err") EXCEPT
                    !.id = x.id, !.arg = x.username, !.password = x.password,
                    !.store = x.store]
    /\ creates' = Without(creates, i)
    /\ UNCHANGED <<fs, users, download_files, download_tokens, sessions, reqs,
                   gen, lists, logins, path_in, path_out>>

\* line 34: a list_files request arrives and reads whether its session holds
\* a user_id. lists[c] holds what the requests of browser c under way have
\* read, in the order of their arrival; n is the number of them that the
\* browser may have under way at once.
ListFilesArrive(c, n) ==
    /\ Len(lists[c]) < n
    /\ lists' = [lists EXCEPT ![c] = Append(@, get_user_id(sessions[c]) # "")]
    /\ UNCHANGED <<fs, users, download_files, download_tokens, sessions, reqs, gen,
                   logins, resp, path_in, path_out, creates>>

\* lines 36-70: the SELECT of the i-th list_files request of browser c
\* answers and the request is answered
ListFilesAnswer(c, i, db_ok) ==
    /\ i <= Len(lists[c])
    /\ LET out == list_files_answer(download_files, lists[c][i], db_ok) IN
       resp' = [Answer("list_files", c, out.status, out.body) EXCEPT
                    !.files = out.files, !.store = IF db_ok THEN "ok" ELSE "select"]
    /\ lists' = [lists EXCEPT ![c] = Without(@, i)]
    /\ UNCHANGED <<fs, users, download_files, download_tokens, sessions, reqs, gen,
                   logins, path_in, path_out, creates>>

\* a generate_token request of user_id for file_id that waits for its SELECT
NewGen(user_id, file_id) ==
    [pc |-> "select", user_id |-> user_id, file_id |-> file_id,
     ok |-> FALSE, token |-> 0, store |-> "ok"]

\* lines 73-81: a generate_token request for file_id arrives and reads the
\* user_id of its session; without one it is answered 401 at once. gen[c]
\* holds the requests of browser c under way, in the order of their arrival,
\* each with the await it waits at ("select", "insert", then "answer" once
\* the store has run the INSERT), the user_id it read, the file_id of its
\* body and, at "answer", what the INSERT gave; n is the number of them that
\* the browser may have under way at once.
GenerateTokenArrive(c, file_id, n) ==
    LET out == generate_token_arrive(sessions[c]) IN
    /\ Len(gen[c]) < n
    /\ IF out.done THEN
           /\ resp' = [Answer("generate_token", c, out.status, out.body) EXCEPT
                           !.arg = file_id]
           /\ gen' = gen
       ELSE
           /\ gen' = [gen EXCEPT ![c] = Append(@, NewGen(out.user_id, file_id))]
           /\ resp' = resp
    /\ UNCHANGED <<fs, users, download_files, download_tokens, sessions, reqs,
                   lists, logins, creates, path_in, path_out>>

\* lines 84-106: the SELECT of the i-th request of browser c answers; the
\* request is answered, or goes on to the INSERT when the file is protected.
\* No step changes download_files, so what the SELECT gives does not depend
\* on when the store runs it.
GenerateTokenSelect(c, i, store) ==
    /\ i <= Len(gen[c])
    /\ gen[c][i].pc = "select"
    /\ LET out == generate_token_select(download_files, gen[c][i].user_id,
                                        gen[c][i].file_id, store)
       IN  IF out.done THEN
               /\ resp' = [Answer("generate_token", c, out.status, out.body) EXCEPT
                               !.arg = gen[c][i].file_id,
                               !.download_url = out.download_url, !.store = store]
               /\ gen' = [gen EXCEPT ![c] = Without(@, i)]
           ELSE
               /\ gen' = [gen EXCEPT ![c][i].pc = "insert"]
               /\ resp' = resp
    /\ UNCHANGED <<fs, users, download_files, download_tokens, sessions, reqs,
                   lists, logins, creates, path_in, path_out>>

\* lines 108-120: the two uuids are drawn and the store runs the INSERT of the
\* i-th request of browser c, with the user_id read at line 78; the handler
\* has not been polled again yet. The token of an INSERT that failed is
\* dropped: the response does not hold it.
GenerateTokenInsert(c, i, token, token_id, store) ==
    /\ i <= Len(gen[c])
    /\ gen[c][i].pc = "insert"
    /\ LET out == insert_token(download_files, download_tokens, users,
                               gen[c][i].user_id, gen[c][i].file_id,
                               token, token_id, store)
       IN  /\ download_tokens' = out.tokens
           /\ gen' = [gen EXCEPT ![c][i] =
                         [@ EXCEPT !.pc = "answer", !.ok = out.ok,
                                   !.token = IF out.ok THEN token ELSE 0,
                                   !.store = store]]
    /\ UNCHANGED <<fs, users, download_files, sessions, reqs, lists, logins,
                   creates, resp, path_in, path_out>>

\* lines 122-131: the handler of the i-th request of browser c is polled with
\* the result of its INSERT and the request is answered
GenerateTokenAnswer(c, i) ==
    /\ i <= Len(gen[c])
    /\ gen[c][i].pc = "answer"
    /\ LET x   == gen[c][i]
           out == generate_token_respond(x.ok, x.token)
       IN  resp' = [Answer("generate_token", c, out.status, out.body) EXCEPT
                        !.arg = x.file_id, !.token = out.token,
                        !.download_url = out.download_url, !.store = x.store]
    /\ gen' = [gen EXCEPT ![c] = Without(@, i)]
    /\ UNCHANGED <<fs, users, download_files, download_tokens, sessions, reqs,
                   lists, logins, creates, path_in, path_out>>

\* the requests of browser c whose INSERT the store has not run yet
Waiting(c) == {i \in 1..Len(gen[c]) : gen[c][i].pc # "answer"}

\* Uuid::new_v4(): uuids are only ever compared for equality, so a new value
\* is either the least value no row holds yet, of which there always is one,
\* or, by collision, one a row holds
Least(S) == CHOOSE n \in S : \A m \in S : n <= m
NewUuids(held) ==
    LET free == (1..(Cardinality(held) + 1)) \ held IN
    (IF held = {} THEN {} ELSE {Least(held)}) \cup {Least(free)}
HeldTokens == {t.token : t \in download_tokens}
HeldIds    == {t.id[2] : t \in download_tokens}

\* the usernames asked of create_user, one of them taken from the start
CreateNames == {"alice", "dave", "erin"}
Salts       == {"s1", "s3"}
HeldUserIds == {u.id : u \in users}
NewUserIds ==
    LET free == {n \in 1..MaxUsers : UserId(n) \notin HeldUserIds}
        held == {n \in 1..MaxUsers : UserId(n) \in HeldUserIds}
    IN  (IF held = {} THEN {} ELSE {UserId(Least(held))})
            \cup (IF free = {} THEN {} ELSE {UserId(Least(free))})

\* the paths asked of GET /downloads/public/{path}
PublicPaths ==
    { <<"a">>, <<"b">>, <<"/", "b">>, <<"l">>, <<"x">>, <<"g", "o", "n", "e">>,
      <<".", ".", "/", "b">> }

DownloadPublic(requested_path) ==
    LET out == serve_file(fs, requested_path) IN
    /\ resp' = [Answer("download_public", 0, out.status, out.body) EXCEPT
                    !.streamed = out.streamed, !.file = out.file,
                    !.data = out.data, !.path = requested_path]
    /\ UNCHANGED <<fs, users, download_files, download_tokens, sessions, reqs,
                   path_in, path_out, gen, logins, lists, creates>>

-----------------------------------------------------------------------------
(* The path functions on their own *)

ApplySanitize ==
    /\ path_out.op = "none"
    /\ LET out == sanitize_path(path_in) IN
       path_out' = [op |-> "sanitize", some |-> out.some, path |-> out.path,
                    reply |-> Reply(0, "")]
    /\ UNCHANGED <<fs, users, download_files, download_tokens, sessions, reqs,
                   resp, path_in, gen, logins, lists, creates>>

ApplyServe ==
    /\ path_out.op = "none"
    /\ path_out' = [op |-> "serve", some |-> FALSE, path |-> <<>>,
                    reply |-> serve_file(fs, path_in)]
    /\ UNCHANGED <<fs, users, download_files, download_tokens, sessions, reqs,
                   resp, path_in, gen, logins, lists, creates>>

-----------------------------------------------------------------------------
(* Specifications *)

\* the server after start-up: nobody logged in, no token issued
Init ==
    /\ fs = FsPlain
    /\ users = InitUsers
    /\ download_files \in CatalogChoices
    /\ download_tokens = {}
    /\ sessions = [c \in Clients |-> NoSession]
    /\ reqs = [r \in Reqs |-> Idle]
    /\ gen = [c \in Clients |-> <<>>]
    /\ lists = [c \in Clients |-> <<>>]
    /\ logins = [c \in Clients |-> <<>>]
    /\ creates = <<>>
    /\ resp = NoAnswer
    /\ path_in = <<>>
    /\ path_out = NotRun

Next ==
    \/ \E c \in Clients : LoginArrive(c, 1)
    \/ \E c \in Clients : LoginSelect(c, 1)
    \/ \E c \in Clients, u \in Usernames, p \in Passwords, st \in {"ok", "select"} :
           LoginAnswer(c, 1, u, p, st, TRUE)
    \/ \E c \in Clients : Logout(c)
    \/ \E c \in Clients : Me(c)
    \/ \E p \in PublicPaths : DownloadPublic(p)

Spec == Init /\ [][Next]_vars

\* the listing of the catalog: the list_files requests of one browser, several
\* of them under way at once, run while alice logs in and out on it
InitList ==
    /\ fs = FsPlain
    /\ users = InitUsers
    /\ download_files \in CatalogChoices
    /\ download_tokens = {}
    /\ sessions = [c \in Clients |-> NoSession]
    /\ reqs = [r \in Reqs |-> Idle]
    /\ gen = [c \in Clients |-> <<>>]
    /\ lists = [c \in Clients |-> <<>>]
    /\ logins = [c \in Clients |-> <<>>]
    /\ creates = <<>>
    /\ resp = NoAnswer
    /\ path_in = <<>>
    /\ path_out = NotRun

NextList ==
    \/ LoginArrive(1, 1)
    \/ LoginSelect(1, 1)
    \/ \E p \in Passwords : LoginAnswer(1, 1, "alice", p, "ok", TRUE)
    \/ Logout(1)
    \/ ListFilesArrive(1, MaxInFlight)
    \/ \E i \in 1..MaxInFlight, ok \in BOOLEAN : ListFilesAnswer(1, i, ok)

SpecList == InitList /\ [][NextList]_vars

\* the issuing of tokens: the token requests of one browser, several of them
\* under way at once, run while alice and bob log in and out on it. A request
\* of a logged-in caller arrives only while the rows of download_tokens and
\* the requests that may still add one are fewer than MaxTokens.
InitTokens ==
    /\ fs = FsPlain
    /\ users = InitUsers
    /\ download_files \in TokenCatalogs
    /\ download_tokens = {}
    /\ sessions = [c \in Clients |-> NoSession]
    /\ reqs = [r \in Reqs |-> Idle]
    /\ gen = [c \in Clients |-> <<>>]
    /\ lists = [c \in Clients |-> <<>>]
    /\ logins = [c \in Clients |-> <<>>]
    /\ creates = <<>>
    /\ resp = NoAnswer
    /\ path_in = <<>>
    /\ path_out = NotRun

NextTokens ==
    \/ LoginArrive(1, 1)
    \/ LoginSelect(1, 1)
    \/ \E a \in {<<"alice", "p1">>, <<"bob", "p2">>} :
           LoginAnswer(1, 1, a[1], a[2], "ok", TRUE)
    \/ Logout(1)
    \/ /\ \/ sessions[1].user_id = ""
          \/ Cardinality(download_tokens) + Cardinality(Waiting(1)) < MaxTokens
       /\ \E f \in FileIds : GenerateTokenArrive(1, f, MaxInFlight)
    \/ \E i \in 1..MaxInFlight, st \in {"ok", "select"} : GenerateTokenSelect(1, i, st)
    \/ \E i \in 1..MaxInFlight, t \in NewUuids(HeldTokens), k \in NewUuids(HeldIds),
          st \in {"ok", "insert"} :
           GenerateTokenInsert(1, i, t, k, st)
    \/ \E i \in 1..MaxInFlight : GenerateTokenAnswer(1, i)

SpecTokens == InitTokens /\ [][NextTokens]_vars

\* the life of the tokens: a server on which alice has just logged in from
\* the first browser; tokens are asked for the files fA and fB, one request
\* at a time and as long as download_tokens holds fewer than MaxTokens rows,
\* while others are being redeemed
InitRedeem ==
    /\ fs = FsPlain
    /\ users = InitUsers
    /\ download_files \in RedeemCatalogs
    /\ download_tokens = {}
    /\ sessions = [c \in Clients |->
                      IF c = 1 THEN [user_id |-> "u1", username |-> "alice"]
                      ELSE NoSession]
    /\ reqs = [r \in Reqs |-> Idle]
    /\ gen = [c \in Clients |-> <<>>]
    /\ lists = [c \in Clients |-> <<>>]
    /\ logins = [c \in Clients |-> <<>>]
    /\ creates = <<>>
    /\ resp = [Answer("login", 1, 200, "Logged in successfully") EXCEPT
                   !.arg = "alice", !.password = "p1"]
    /\ path_in = <<>>
    /\ path_out = NotRun

NextRedeem ==
    \/ /\ Cardinality(download_tokens) + Cardinality(Waiting(1)) < MaxTokens
       /\ \E f \in FileIds \ {"fZ"} : GenerateTokenArrive(1, f, 1)
    \/ GenerateTokenSelect(1, 1, "ok")
    \/ \E t \in NewUuids(HeldTokens), k \in NewUuids(HeldIds) :
           GenerateTokenInsert(1, 1, t, k, "ok")
    \/ GenerateTokenAnswer(1, 1)
    \/ \E r \in Reqs, t \in Uuids, ok \in BOOLEAN : Lookup(r, t, ok)
    \/ \E r \in Reqs, ok \in BOOLEAN : Mark(r, ok)
    \/ \E r \in Reqs : Serve(r)

SpecRedeem == InitRedeem /\ [][NextRedeem]_vars

\* the sessions: the server with one catalog and one browser, which may have
\* several login requests under way at once and where either session.insert
\* of login may fail
InitSession ==
    /\ fs = FsPlain
    /\ users = InitUsers
    /\ download_files = <<FileRow("fA", <<"a">>, 0), FileRow("fB", <<"b">>, 1)>>
    /\ download_tokens = {}
    /\ sessions = [c \in Clients |-> NoSession]
    /\ reqs = [r \in Reqs |-> Idle]
    /\ gen = [c \in Clients |-> <<>>]
    /\ lists = [c \in Clients |-> <<>>]
    /\ logins = [c \in Clients |-> <<>>]
    /\ creates = <<>>
    /\ resp = NoAnswer
    /\ path_in = <<>>
    /\ path_out = NotRun

NextSession ==
    \/ LoginArrive(1, MaxLogins)
    \/ \E i \in 1..MaxLogins : LoginSelect(1, i)
    \/ \E i \in 1..MaxLogins, u \in Usernames, p \in Passwords,
          st \in {"ok", "select", "username"} :
           LoginAnswer(1, i, u, p, st, TRUE)
    \/ \E i \in 1..MaxLogins, u \in Usernames, p \in Passwords, m \in BOOLEAN :
           LoginAnswer(1, i, u, p, "user_id", m)
    \/ Logout(1)
    \/ Me(1)

SpecSession == InitSession /\ [][NextSession]_vars

\* the accounts: users are created, one call at a time, while their owners
\* log in from one browser; the INSERT of create_user and the SELECT of login
\* are run by the store in any order with the answers
InitAccounts ==
    /\ fs = FsPlain
    /\ users = InitUsers
    /\ download_files = <<>>
    /\ download_tokens = {}
    /\ sessions = [c \in Clients |-> NoSession]
    /\ reqs = [r \in Reqs |-> Idle]
    /\ gen = [c \in Clients |-> <<>>]
    /\ lists = [c \in Clients |-> <<>>]
    /\ logins = [c \in Clients |-> <<>>]
    /\ creates = <<>>
    /\ resp = NoAnswer
    /\ path_in = <<>>
    /\ path_out = NotRun

NextAccounts ==
    \/ \E u \in CreateNames, p \in Passwords, id \in NewUserIds, s \in Salts,
          ok \in BOOLEAN :
           CreateUserInsert(u, p, id, s, ok, 1)
    \/ CreateUserReturn(1)
    \/ LoginArrive(1, 1)
    \/ LoginSelect(1, 1)
    \/ \E u \in CreateNames, p \in Passwords : LoginAnswer(1, 1, u, p, "ok", TRUE)
    \/ Me(1)

SpecAccounts == InitAccounts /\ [][NextAccounts]_vars

\* the path functions, on every short path and every layout of the root
InitPath ==
    /\ fs \in FsChoices
    /\ users = InitUsers
    /\ download_files = <<>>
    /\ download_tokens = {}
    /\ sessions = [c \in Clients |-> NoSession]
    /\ reqs = [r \in Reqs |-> Idle]
    /\ gen = [c \in Clients |-> <<>>]
    /\ lists = [c \in Clients |-> <<>>]
    /\ logins = [c \in Clients |-> <<>>]
    /\ creates = <<>>
    /\ resp = NoAnswer
    /\ path_in \in PathInputs
    /\ path_out = NotRun

NextPath == ApplySanitize \/ ApplyServe

SpecPath == InitPath /\ [][NextPath]_vars

-----------------------------------------------------------------------------
(* Properties *)

Started(t)   == {r \in Reqs : reqs[r].pc # "idle" /\ reqs[r].token = t}
\* the requests that were streamed the file
Streamed(t)  == {r \in Started(t) : reqs[r].reply.streamed}
NoStoreFailure == \A r \in Reqs : reqs[r].lookup_ok /\ reqs[r].mark_ok
TokenRow(r)  == {t \in download_tokens : t.id = reqs[r].token_id}

\* C1: with a store that never fails, of the requests redeeming one issued
\* token at most one is streamed the file, and every other one that found the
\* token is answered 410 Gone
C1_ExactlyOneRedemption ==
    NoStoreFailure =>
        \A t \in HeldTokens :
            /\ Cardinality(Streamed(t)) <= 1
            /\ \A r \in Started(t) :
                   ( /\ reqs[r].pc = "done" /\ reqs[r].reply.status # 404
                     /\ Streamed(t) \ {r} # {} )
                       => reqs[r].reply.status = 410

\* the catalog rows whose file is the one at canonical path p
RowsOfFile(p) ==
    {f \in Rows(download_files) :
        LET c == canonicalize(fs, join(DOWNLOADS_DIR, trim_start_matches(f.file_path, SEP)))
        IN  c.ok /\ c.path = p}

\* C2: GET /downloads/public/{path}, which takes neither session nor token,
\* never streams a file that the catalog marks protected
C2_PublicNeverStreamsProtected ==
    (resp.op = "download_public" /\ resp.streamed)
        => \A f \in RowsOfFile(resp.file) : f.is_protected = 0

\* C3: a new token row is unused, a used row stays used, and no row is ever
\* deleted or changed in another column
C3_UsedOnceNeverDeleted ==
    [][ /\ \A t \in download_tokens :
               \E u \in download_tokens' :
                   /\ u.id = t.id /\ u.token = t.token
                   /\ u.file_id = t.file_id /\ u.user_id = t.user_id
                   /\ u.used \in {0, 1}
                   /\ t.used = 1 => u.used = 1
        /\ \A u \in download_tokens' :
               (\A t \in download_tokens : t.id # u.id) => u.used = 0
      ]_vars

\* a token was redeemed, and a second request for it was turned away
C3_Witness ==
    \E r \in Reqs, q \in Reqs :
        /\ reqs[r].pc = "done" /\ reqs[r].served
        /\ \E t \in TokenRow(r) : t.used = 1
        /\ reqs[q].token = reqs[r].token /\ reqs[q].reply.status = 410

\* C4: a request that starts after the file was returned for its token is
\* streamed nothing and, the lookup answering, is told 410 Gone
C4_LaterRedemptionsFail ==
    \A r \in Reqs :
        reqs[r].after_stream =>
            /\ ~reqs[r].reply.streamed
            /\ (reqs[r].pc = "done" /\ reqs[r].lookup_ok) => reqs[r].reply.status = 410

\* C5: when the serve step of a redemption ends without streaming, the token
\* is used all the same, and a later request for it is streamed nothing and,
\* the lookup answering, is told 410 Gone
C5_UsedEvenIfStreamFails ==
    /\ \A r \in Reqs :
           (reqs[r].pc = "done" /\ reqs[r].served /\ ~reqs[r].reply.streamed)
               => \A t \in TokenRow(r) : t.used = 1
    /\ \A r \in Reqs :
           reqs[r].after_failed =>
               /\ ~reqs[r].reply.streamed
               /\ (reqs[r].pc = "done" /\ reqs[r].lookup_ok)
                      => reqs[r].reply.status = 410

\* C6: a redemption during which the store failed, at the lookup or at the
\* update, ends with 500 and streams nothing
C6_StoreFailureIsInternalError ==
    \A r \in Reqs :
        (reqs[r].pc = "done" /\ (~reqs[r].lookup_ok \/ ~reqs[r].mark_ok))
            => (reqs[r].reply.status = 500 /\ ~reqs[r].reply.streamed)

\* C7: whatever the path and the layout of the root, a streamed file lies
\* under the canonical root and is none of the files outside it; a path that
\* passes sanitize_path and resolves outside the root is answered 403
C7_Containment ==
    path_out.op = "serve" =>
        LET root   == canonicalize(fs, DOWNLOADS_DIR)
            rel    == trim_start_matches(path_in, SEP)
            target == canonicalize(fs, DOWNLOADS_DIR \o <<SEP>> \o rel)
            out    == path_out.reply
        IN  /\ out.streamed =>
                /\ root.ok
                /\ Len(out.file) > Len(root.path)
                /\ \A i \in 1..Len(root.path) : out.file[i] = root.path[i]
                /\ out.file \notin DOMAIN Outside
                /\ out.data # "secret"
            /\ ( /\ sanitize_path(path_in).some /\ root.ok /\ target.ok
                 /\ \E i \in 1..Len(root.path) :
                        i > Len(target.path) \/ target.path[i] # root.path[i] )
                   => (out.status = 403 /\ ~out.streamed)

\* the link l inside the root, which points outside it, is refused
C7_Witness ==
    /\ path_out.op = "serve" /\ path_in = <<"l">>
    /\ fs = FsLinkedRoot
    /\ path_out.reply.status = 403

\* the number of separators that begin a path
RECURSIVE LeadingSeps(_)
LeadingSeps(cs) ==
    IF cs # <<>> /\ cs[1] = SEP THEN 1 + LeadingSeps(Tail(cs)) ELSE 0

\* a ".." that stands between separators or the ends of the path
HasParentDir(cs) ==
    \E i \in 1..(Len(cs) - 1) :
        /\ cs[i] = "." /\ cs[i + 1] = "."
        /\ i = 1 \/ cs[i - 1] = SEP
        /\ i + 1 = Len(cs) \/ cs[i + 2] = SEP

\* C8: sanitize_path returns the path without its leading separators, and
\* returns it exactly when that remainder is not empty, holds no NUL and has
\* no ".." component
C8_SanitizeRule ==
    path_out.op = "sanitize" =>
        LET k    == LeadingSeps(path_in)
            rest == SubSeq(path_in, k + 1, Len(path_in))
        IN  /\ path_out.some <=>
                  /\ rest # <<>>
                  /\ \A i \in 1..Len(rest) : rest[i] # NUL
                  /\ ~HasParentDir(rest)
            /\ path_out.some => path_out.path = rest

\* "foo/../bar" is turned away
C8_Witness ==
    /\ path_out.op = "sanitize"
    /\ path_in = <<"f", "o", "o", "/", ".", ".", "/", "b", "a", "r">>
    /\ ~path_out.some

\* the step in which a list_files request of browser c arrives
ListArrives(c) == Len(lists'[c]) > Len(lists[c])
\* the step in which the i-th list_files request of browser c is answered
ListAnswers(c, i) ==
    /\ i \in 1..Len(lists[c])
    /\ lists'[c] = Without(lists[c], i)

\* C9: a list_files request that arrives without a session user is answered
\* with exactly the unprotected rows of the catalog, and one that arrives with
\* a session user with exactly all rows (500 and no rows when the store
\* fails), whatever has become of the caller's session by the time of the
\* answer
C9_ListFilesVisibility ==
    [][\A c \in Clients :
          /\ ListArrives(c) =>
                /\ lists'[c] = Append(lists[c], sessions[c].user_id # "")
                /\ resp' = resp
          /\ \A i \in 1..Len(lists[c]) :
                ListAnswers(c, i) =>
                    LET visible == {f \in Rows(download_files) :
                                        lists[c][i] \/ f.is_protected = 0}
                        listed  == {resp'.files[j] : j \in 1..Len(resp'.files)}
                    IN  /\ resp'.op = "list_files" /\ resp'.client = c
                        /\ IF resp'.store = "ok"
                           THEN /\ resp'.status = 200
                                /\ Len(resp'.files) = Cardinality(visible)
                                /\ listed = {DownloadFile(f) : f \in visible}
                           ELSE resp'.status = 500 /\ resp'.files = <<>>]_vars

\* a caller who was logged in when the request arrived, and has logged out
\* since, is listed a protected file next to an unprotected one
C9_Witness ==
    /\ resp.op = "list_files" /\ resp.status = 200
    /\ sessions[resp.client] = NoSession
    /\ \E i \in 1..Len(resp.files) : resp.files[i].is_protected
    /\ \E i \in 1..Len(resp.files) : ~resp.files[i].is_protected
    /\ Len(resp.files) = Len(download_files)

\* the step in which a generate_token request of browser c arrives and is
\* answered at once
Refused(c) ==
    /\ gen' = gen /\ resp' # resp
    /\ resp'.op = "generate_token" /\ resp'.client = c
\* the step in which a generate_token request of browser c arrives and goes on
\* to the SELECT
Admitted(c) == Len(gen'[c]) > Len(gen[c])
\* the step in which the SELECT of the i-th request of browser c answers and
\* the request is answered
SelectAnswers(c, i) ==
    /\ i \in 1..Len(gen[c])
    /\ gen[c][i].pc = "select"
    /\ gen'[c] = Without(gen[c], i)
\* the step in which the SELECT of the i-th request of browser c answers and
\* the request goes on to the INSERT
GoesOn(c, i) ==
    /\ i \in 1..Len(gen[c])
    /\ gen[c][i].pc = "select"
    /\ gen'[c] = [gen[c] EXCEPT ![i].pc = "insert"]
\* the step in which the store runs the INSERT of the i-th request of
\* browser c
Inserts(c, i) ==
    /\ i \in 1..Len(gen[c])
    /\ gen[c][i].pc = "insert"
    /\ Len(gen'[c]) = Len(gen[c])
    /\ gen'[c][i].pc = "answer"
    /\ \A j \in 1..Len(gen[c]) : j # i => gen'[c][j] = gen[c][j]
\* the step in which the i-th request of browser c, its INSERT over, is
\* answered
Completes(c, i) ==
    /\ i \in 1..Len(gen[c])
    /\ gen[c][i].pc = "answer"
    /\ gen'[c] = Without(gen[c], i)

\* the catalog rows with the id file_id
FileOf(file_id) == {f \in Rows(download_files) : f.id = file_id}

\* C10: a generate_token request that arrives without a session user is
\* answered 401 at once, whatever the file_id, and never reaches the SELECT;
\* one that arrives with a session user is answered 404 when its SELECT, the
\* store answering, finds no catalog row with the file_id, whatever has become
\* of the caller's session by then. A request answered 401 or 404 leaves
\* download_tokens as it was, and only a request for a file of the catalog
\* reaches the INSERT, after which it is answered neither 401 nor 404.
C10_GenerateTokenFailures ==
    [][\A c \in Clients :
          /\ sessions[c].user_id = "" => Len(gen'[c]) <= Len(gen[c])
          /\ Refused(c) =>
                /\ sessions[c].user_id = ""
                /\ resp'.status = 401 /\ resp'.body = "Authentication required"
                /\ resp'.token = 0 /\ download_tokens' = download_tokens
          /\ Admitted(c) =>
                /\ sessions[c].user_id # ""
                /\ resp' = resp /\ download_tokens' = download_tokens
          /\ \A i \in 1..Len(gen[c]) :
                /\ SelectAnswers(c, i) =>
                      /\ resp'.op = "generate_token" /\ resp'.client = c
                      /\ resp'.arg = gen[c][i].file_id
                      /\ resp'.status # 401
                      /\ (resp'.store # "select" /\ FileOf(gen[c][i].file_id) = {})
                            => resp'.status = 404 /\ resp'.body = "File not found"
                      /\ resp'.status = 404 => FileOf(gen[c][i].file_id) = {}
                      /\ resp'.token = 0 /\ download_tokens' = download_tokens
                /\ GoesOn(c, i) =>
                      /\ FileOf(gen[c][i].file_id) # {}
                      /\ resp' = resp /\ download_tokens' = download_tokens
                /\ Inserts(c, i) => resp' = resp
                /\ Completes(c, i) =>
                      /\ resp'.status \notin {401, 404}
                      /\ download_tokens' = download_tokens]_vars

\* a caller who was logged in when the request arrived, and has logged out
\* since, is answered 404 for a file that is not in the catalog
C10_Witness ==
    /\ resp.op = "generate_token" /\ resp.status = 404
    /\ resp.arg = "fZ" /\ FileOf(resp.arg) = {}
    /\ sessions[resp.client] = NoSession
    /\ download_tokens # {}

\* C11: a generate_token request that arrived with a session user for a
\* catalog file that is not protected is answered, when its SELECT answers, 200
\* with no token and the URL /downloads/public/ followed by the file's path,
\* whatever has become of the caller's session by then; it leaves
\* download_tokens as it was and never reaches the INSERT
C11_PublicFileNoToken ==
    [][\A c \in Clients :
          \A i \in 1..Len(gen[c]) :
              LET x == gen[c][i] IN
              /\ ( /\ SelectAnswers(c, i)
                   /\ resp'.store # "select"
                   /\ \E f \in FileOf(x.file_id) : f.is_protected = 0 )
                     => /\ x.user_id # ""
                        /\ resp'.op = "generate_token" /\ resp'.client = c
                        /\ resp'.arg = x.file_id
                        /\ resp'.status = 200 /\ resp'.token = 0
                        /\ \E f \in FileOf(x.file_id) :
                               resp'.download_url =
                                   [prefix |-> "/downloads/public/",
                                    path |-> f.file_path, token |-> 0]
                        /\ download_tokens' = download_tokens
              /\ GoesOn(c, i) =>
                     \A f \in FileOf(x.file_id) : f.is_protected # 0
              /\ x.pc \in {"insert", "answer"} =>
                     /\ \A f \in FileOf(x.file_id) : f.is_protected # 0
                     /\ Inserts(c, i) => FileOf(x.file_id) # {}]_vars

\* a caller who was logged in when the request arrived, and has logged out
\* since, is given the public URL of the unprotected file fA while a token
\* row for another file exists
C11_Witness ==
    /\ resp.op = "generate_token" /\ resp.arg = "fA" /\ resp.status = 200
    /\ sessions[resp.client] = NoSession
    /\ resp.download_url.prefix = "/downloads/public/"
    /\ resp.download_url.path = <<"a">>
    /\ download_tokens # {}

\* C12: a generate_token request answered 200 for a protected catalog file
\* has added exactly one row to download_tokens and changed no other; the new
\* row is unused, names the requested file and the session user the request
\* arrived with, and holds the token of the answer, which no row held before.
\* Every such request adds a row of its own: the row is added in the step in
\* which the store runs the INSERT of the request, rows are added in no other
\* step, and the request is answered 200 exactly when its INSERT added one.
C12_NewTokenRow ==
    [][/\ \A c \in Clients :
          /\ Admitted(c) =>
                \E f \in FileIds :
                    gen'[c] = Append(gen[c], NewGen(sessions[c].user_id, f))
          /\ \A i \in 1..Len(gen[c]) :
                LET x == gen[c][i] IN
                /\ Inserts(c, i) =>
                      LET y == gen'[c][i] IN
                      /\ y.user_id = x.user_id /\ y.file_id = x.file_id
                      /\ x.user_id # ""
                      /\ \E f \in FileOf(x.file_id) : f.is_protected # 0
                      /\ resp' = resp
                      /\ IF y.ok
                         THEN \E row \in download_tokens' \ download_tokens :
                                  /\ download_tokens' = download_tokens \cup {row}
                                  /\ row.used = 0
                                  /\ row.file_id = x.file_id
                                  /\ row.user_id = x.user_id
                                  /\ row.token = y.token
                                  /\ \A t \in download_tokens :
                                         t.token # row.token /\ t.id # row.id
                         ELSE download_tokens' = download_tokens
                /\ Completes(c, i) =>
                      /\ resp'.op = "generate_token" /\ resp'.client = c
                      /\ resp'.arg = x.file_id
                      /\ resp'.status = 200 <=> x.ok
                      /\ resp'.status = 200 =>
                            /\ resp'.token = x.token
                            /\ resp'.download_url =
                                   [prefix |-> "/downloads/token/",
                                    path |-> <<>>, token |-> x.token]
                            /\ \E row \in download_tokens :
                                   /\ row.token = x.token
                                   /\ row.file_id = x.file_id
                                   /\ row.user_id = x.user_id
       /\ download_tokens' # download_tokens =>
              \E d \in Clients : \E i \in 1..Len(gen[d]) : Inserts(d, i) /\ gen'[d][i].ok
       /\ ( /\ resp'.op = "generate_token" /\ resp'.status = 200
            /\ resp' # resp
            /\ \E f \in FileOf(resp'.arg) : f.is_protected # 0 )
              => \E d \in Clients : \E i \in 1..Len(gen[d]) :
                     Completes(d, i) /\ gen[d][i].ok]_vars

\* two requests for the same protected file left two rows
\* with different tokens, the second after their caller had logged out
C12_Witness ==
    /\ resp.op = "generate_token" /\ resp.status = 200
    /\ sessions[resp.client] = NoSession
    /\ \E t \in download_tokens, u \in download_tokens :
           /\ t.file_id = u.file_id /\ t.user_id = u.user_id
           /\ t.token # u.token /\ u.token = resp.token

\* the users a login request named
Named(r) == {u \in users : u.username = r.arg}
\* the stored hash of u is the hash of password under the salt it was made with
HashOf(u, password) ==
    u.password_hash = hash_password(password, u.password_hash.salt)

\* C13: login answers 200 exactly when a user has the username and the stored
\* hash is the hash of the password (and neither the SELECT nor the storing of
\* the user_id failed, which are answered 500); the session then carries that
\* user's id and username.  An unknown username, and a password that is not
\* the one of a well-formed stored hash, are answered 401 "Invalid credentials"
C13_LoginIff ==
    resp.op = "login" =>
        /\ resp.status = 200 <=>
               /\ resp.store \notin {"select", "user_id"}
               /\ \E u \in Named(resp) : HashOf(u, resp.password)
        /\ resp.status = 200 =>
               /\ resp.body = "Logged in successfully"
               /\ \E u \in Named(resp) :
                      /\ HashOf(u, resp.password)
                      /\ sessions[resp.client] =
                             [user_id |-> u.id, username |-> u.username]
        /\ ( /\ resp.store # "select"
             /\ \/ Named(resp) = {}
                \/ \E u \in Named(resp) :
                       u.password_hash.phc /\ ~HashOf(u, resp.password) )
               => resp.status = 401 /\ resp.body = "Invalid credentials"

\* bob logs in with his password and the session is his
C13_Witness ==
    /\ resp.op = "login" /\ resp.arg = "bob" /\ resp.password = "p2"
    /\ resp.status = 200
    /\ sessions[resp.client] = [user_id |-> "u2", username |-> "bob"]

\* a login request, answered by the store, for a username no user has
UnknownUser(r) ==
    r.op = "login" /\ r.store = "ok" /\ Named(r) = {}
\* a login request, answered by the store, for a username a user has, with a
\* password that is not the one of the well-formed stored hash
WrongPassword(r) ==
    /\ r.op = "login" /\ r.store = "ok"
    /\ \E u \in Named(r) : u.password_hash.phc /\ ~HashOf(u, r.password)
\* what the caller sees of a response: everything but the record of who asked
\* and of what was asked
Seen(r) == [r EXCEPT !.client = 0, !.arg = "", !.password = ""]

\* C14: of two login requests in a row, one for an unknown username and one
\* for an existing username with a wrong password, the caller sees the same
\* response (status, body and every other field), and neither changes the
\* session cookie
C14_LoginIndistinguishable ==
    [][( \/ UnknownUser(resp) /\ WrongPassword(resp')
         \/ WrongPassword(resp) /\ UnknownUser(resp') )
          => /\ Seen(resp') = Seen(resp)
             /\ resp'.status = 401 /\ resp'.body = "Invalid credentials"
             /\ sessions' = sessions]_vars

\* alice's name with bob's password is answered like an unknown name
C14_Witness ==
    /\ WrongPassword(resp) /\ resp.arg = "alice" /\ resp.password = "p2"
    /\ resp.status = 401

\* the answer of whoami that names user u
IsUser(u) == [status |-> 200, body |-> "", id |-> u.id, username |-> u.username]
\* the response r is a successful login of client c as user u
LoggedInAs(r, c, u) ==
    r.op = "login" /\ r.status = 200 /\ r.client = c /\ r.arg = u.username
\* the response r is a logout of client c
LoggedOut(r, c) == r.op = "logout" /\ r.client = c

\* what every step keeps of whoami, whatever ends a login
WhoamiFollowsSession(c) ==
    \* a successful login as u: whoami then answers u
    /\ \A u \in users : LoggedInAs(resp', c, u) => me(sessions'[c]) = IsUser(u)
    \* no session user and no successful login: whoami keeps answering 401
    /\ ( /\ me(sessions[c]).status = 401
         /\ \A u \in users : ~LoggedInAs(resp', c, u) )
           => me(sessions'[c]).status = 401
    \* a logout: whoami then answers 401
    /\ LoggedOut(resp', c) =>
           /\ me(sessions'[c]).status = 401
           /\ me(sessions'[c]).body = "Not authenticated"
    \* a whoami request is answered from the session
    /\ (resp'.op = "me" /\ resp'.client = c) =>
           /\ resp'.status = me(sessions[c]).status
           /\ resp'.body = me(sessions[c]).body
           /\ resp'.id = me(sessions[c]).id
           /\ resp'.username = me(sessions[c]).username

\* C15 as stated: whoami answers 401 on a fresh session; after a successful
\* login as u it answers u, and goes on answering u across every step that is
\* not a logout on that session
C15_WhoamiUntilLogout ==
    /\ \A c \in Clients : me(sessions[c]).status = 401
    /\ [][\A c \in Clients :
             /\ WhoamiFollowsSession(c)
             /\ \A u \in users :
                    (me(sessions[c]) = IsUser(u) /\ ~LoggedOut(resp', c))
                        => me(sessions'[c]) = IsUser(u)]_vars

\* C15 with a later successful login taken to end the earlier one: whoami
\* answers 401 on a fresh session; after a successful login as u it answers
\* u, and goes on answering u across every step that is neither a logout nor
\* another successful login on that session
C15_WhoamiUntilLogoutOrLogin ==
    /\ \A c \in Clients : me(sessions[c]).status = 401
    /\ [][\A c \in Clients :
             /\ WhoamiFollowsSession(c)
             /\ \A u \in users :
                    ( /\ me(sessions[c]) = IsUser(u) /\ ~LoggedOut(resp', c)
                      /\ \A v \in users : ~LoggedInAs(resp', c, v) )
                        => me(sessions'[c]) = IsUser(u)]_vars

\* whoami answered alice on a session alice had logged in on
C15_Witness ==
    /\ resp.op = "me" /\ resp.status = 200
    /\ resp.id = "u1" /\ resp.username = "alice"
    /\ sessions[resp.client] = [user_id |-> "u1", username |-> "alice"]

\* the three operations that look at the session all take it for anonymous
Unauthenticated(session) ==
    /\ me(session).status = 401
    /\ \A ok \in BOOLEAN :
           LET out == list_files(download_files, session, ok) IN
           \A i \in 1..Len(out.files) : ~out.files[i].is_protected
    /\ list_files(download_files, session, TRUE).files =
           list_files(download_files, NoSession, TRUE).files
    /\ \A f \in FileIds, t \in Uuids, k \in Uuids, st \in {"ok", "select", "insert"} :
           generate_token(download_files, download_tokens, users, session,
                          f, t, k, st).status = 401

\* C16: logout answers 200 from every session, with or without a user; after
\* it whoami, list_files and generate_token take the caller for anonymous; it
\* touches nothing but the caller's session; and a further logout would leave
\* the session as the first left it (the steps are those of logout: a step in
\* which the store runs a statement of a request under way sends no response)
C16_LogoutIdempotent ==
    [][\A c \in Clients :
          (LoggedOut(resp', c) /\ gen' = gen /\ logins' = logins) =>
              /\ resp'.status = 200 /\ resp'.body = "Logged out successfully"
              /\ Unauthenticated(sessions'[c])
              /\ logout(sessions'[c]) = sessions'[c]
              /\ logout(sessions'[c]) = logout(sessions[c])
              /\ \A d \in Clients \ {c} : sessions'[d] = sessions[d]
              /\ UNCHANGED <<users, download_files, download_tokens>>]_vars

\* a caller who had a token issued has logged out while a further token
\* request of theirs waits for its INSERT
C16_Witness ==
    /\ resp.op = "logout" /\ resp.status = 200
    /\ sessions[resp.client] = NoSession
    /\ \E i \in 1..Len(gen[resp.client]) :
           /\ gen[resp.client][i].pc = "insert"
           /\ gen[resp.client][i].user_id = "u1"
    /\ \E t \in download_tokens : t.user_id = "u1"

\* a login request, answered by the store, for a user whose stored hash does
\* not parse
MalformedStored(r) ==
    /\ r.op = "login" /\ r.store = "ok"
    /\ \E u \in Named(r) : ~u.password_hash.phc

\* C17: a login for a user whose stored hash does not parse is answered 500
\* "Internal error", never 401, whatever the password, and the step leaves
\* every session as it was
C17_MalformedHashIsInternalError ==
    /\ [](MalformedStored(resp) =>
              /\ resp.status = 500 /\ resp.body = "Internal error"
              /\ \A u \in Named(resp) : sessions[resp.client].user_id # u.id)
    /\ [][MalformedStored(resp') => sessions' = sessions]_vars

\* carol, whose stored hash is malformed, is answered 500 while the session
\* is alice's
C17_Witness ==
    /\ MalformedStored(resp) /\ resp.arg = "carol" /\ resp.status = 500
    /\ sessions[resp.client].user_id = "u1"

\* C18: no two rows of users share a username (or an id); a create_user call
\* for a username that a row holds fails and leaves the table as it was, in
\* whatever order the calls reach the store; a call that succeeds adds the one
\* row it was asked for, and returns what its INSERT gave; no other step
\* changes users
C18_UsernameUnique ==
    /\ [](\A u \in users, v \in users :
              (u.username = v.username \/ u.id = v.id) => u = v)
    /\ [][/\ Len(creates') > Len(creates) =>
                LET x == creates'[Len(creates')] IN
                /\ creates' = Append(creates, x)
                /\ resp' = resp
                /\ (\E u \in users : u.username = x.username) =>
                       ~x.ok /\ users' = users
                /\ ~x.ok => users' = users
                /\ x.ok =>
                       \E row \in users' \ users :
                           /\ users' = users \cup {row}
                           /\ row.id = x.id /\ row.username = x.username
                           /\ HashOf(row, x.password)
          /\ \A i \in 1..Len(creates) :
                creates' = Without(creates, i) =>
                    LET x == creates[i] IN
                    /\ resp'.op = "create_user"
                    /\ resp'.arg = x.username /\ resp'.password = x.password
                    /\ resp'.body = (IF x.ok THEN "Ok" ELSE "Err")
                    /\ resp'.id = x.id
                    /\ users' = users
                    /\ x.ok => \E row \in users :
                                   /\ row.id = x.id /\ row.username = x.username
                                   /\ HashOf(row, x.password)
          /\ users' # users => Len(creates') > Len(creates)]_vars

\* a second create_user for dave was turned away
C18_Witness ==
    /\ resp.op = "create_user" /\ resp.arg = "dave" /\ resp.body = "Err"
    /\ resp.store = "ok"
    /\ Cardinality({u \in users : u.username = "dave"}) = 1

\* C19: a redemption request that arrives with a token string no row of
\* download_tokens holds ends at its lookup, the store answering, with 404
\* "Invalid or expired token": it never reaches the update or serve_file, and
\* the step leaves download_tokens as it was
C19_UnknownToken ==
    [][\A r \in Reqs :
          ( /\ reqs[r].pc = "idle" /\ reqs'[r].pc # "idle"
            /\ reqs'[r].lookup_ok
            /\ reqs'[r].token \notin HeldTokens )
              => /\ reqs'[r].pc = "done"
                 /\ reqs'[r].reply.status = 404
                 /\ reqs'[r].reply.body = "Invalid or expired token"
                 /\ ~reqs'[r].reply.streamed /\ ~reqs'[r].served
                 /\ reqs'[r].reply.file = NoFile
                 /\ download_tokens' = download_tokens]_vars

\* a request for a token nobody was issued is over with 404 while an issued
\* token is still unused
C19_Witness ==
    \E r \in Reqs :
        /\ reqs[r].pc = "done" /\ reqs[r].reply.status = 404
        /\ reqs[r].token \notin HeldTokens
        /\ \E t \in download_tokens : t.used = 0

\* the filesystem calls of serve_file, in the order of the code
ServeCalls(f, safe) ==
    LET file_path == join(DOWNLOADS_DIR, safe)
        target    == canonicalize(f, file_path)
    IN  << Canonicalize(DOWNLOADS_DIR), Canonicalize(file_path) >>
            \o (IF target.ok THEN <<Open(target.path)>> ELSE <<>>)

\* the parts of C20 that do not depend on the root directory being there
ServeOrder ==
    LET safe   == sanitize_path(path_in)
        root   == canonicalize(fs, DOWNLOADS_DIR)
        target == canonicalize(fs, join(DOWNLOADS_DIR, safe.path))
        out    == path_out.reply
        opened == \E i \in 1..Len(out.calls) : out.calls[i].call = "open"
    IN  \* malformed: 400 and no filesystem call
        /\ ~safe.some => (out.status = 400 /\ out.calls = <<>>)
        /\ out.status = 400 => ~safe.some
        \* the calls are made in the order root, target, open
        /\ safe.some =>
               \E n \in 1..3 : out.calls = SubSeq(ServeCalls(fs, safe.path), 1, n)
        \* 403 only for a target that exists and resolves outside the root
        /\ out.status = 403 =>
               /\ safe.some /\ root.ok /\ target.ok
               /\ ~starts_with(target.path, root.path)
               /\ ~opened
        \* the file is opened, and streamed, only past the three checks
        /\ (opened \/ out.streamed) =>
               /\ safe.some /\ target.ok /\ root.ok
               /\ starts_with(target.path, root.path)
               /\ out.calls[Len(out.calls)] = Open(target.path)
        /\ ( /\ safe.some /\ target.ok /\ root.ok
             /\ starts_with(target.path, root.path) ) => opened

\* C20 as stated: serve_file answers 400 to a malformed path before any
\* filesystem call, 404 to a sanitized path whose target does not exist, 403
\* only to a target that exists and resolves outside the root, and opens the
\* file only after the three checks
C20_ServeCheckOrder ==
    path_out.op = "serve" =>
        /\ ServeOrder
        /\ ( /\ sanitize_path(path_in).some
             /\ ~canonicalize(fs, join(DOWNLOADS_DIR, sanitize_path(path_in).path)).ok )
               => path_out.reply.status = 404

\* C20 amended: as stated, except that a sanitized path whose target does not
\* exist is answered 404 when the root directory resolves, and 500 "Downloads
\* directory not configured" when it does not
C20_ServeCheckOrderRootFirst ==
    path_out.op = "serve" =>
        /\ ServeOrder
        /\ ( /\ sanitize_path(path_in).some
             /\ ~canonicalize(fs, join(DOWNLOADS_DIR, sanitize_path(path_in).path)).ok )
               => IF canonicalize(fs, DOWNLOADS_DIR).ok
                  THEN /\ path_out.reply.status = 404
                       /\ path_out.reply.body = "File not found"
                  ELSE /\ path_out.reply.status = 500
                       /\ path_out.reply.body = "Downloads directory not configured"
                       /\ path_out.reply.calls = <<Canonicalize(DOWNLOADS_DIR)>>

\* "../etc/passwd" is turned away with no filesystem call made
C20_Witness ==
    /\ path_out.op = "serve"
    /\ path_in = <<".", ".", "/", "e", "t", "c", "/", "p", "a", "s", "s", "w", "d">>
    /\ path_out.reply.status = 400
    /\ path_out.reply.calls = <<>>

\* C21: on every session the three operations agree on whether the caller is
\* authenticated: whoami answers 200 exactly when list_files lists the
\* protected rows and generate_token does not answer 401; that is, the
\* session holds a user_id exactly when it holds a username, and the two are
\* those of one user
C21_SessionKeysAgree ==
    \A c \in Clients :
        LET s        == sessions[c]
            whoami   == me(s).status = 200
            listed   == list_files(download_files, s, TRUE).files
            protected == \E i \in 1..Len(listed) : listed[i].is_protected
            issuing  == \A f \in FileIds, t \in Uuids, k \in Uuids :
                            generate_token(download_files, download_tokens, users,
                                           s, f, t, k, "ok").status # 401
        IN  /\ whoami <=> issuing
            /\ (\E f \in Rows(download_files) : f.is_protected # 0)
                   => (whoami <=> protected)
            /\ s.user_id # "" <=> s.username # ""
            /\ s.user_id # "" =>
                   \E u \in users : u.id = s.user_id /\ u.username = s.username

\* C22: a login that is turned away for an unknown username, a wrong
\* password, a failing SELECT or a malformed stored hash (401, or 500
\* "Internal error") leaves every session as it was, the caller's included,
\* and with it what whoami answers; none of these logins is answered 200
C22_FailedLoginKeepsSession ==
    /\ [](resp.op = "login" =>
              /\ resp.status \in {200, 401, 500}
              /\ ( \/ resp.store = "select"
                   \/ Named(resp) = {}
                   \/ \E u \in Named(resp) : ~HashOf(u, resp.password) )
                     => /\ resp.status \in {401, 500}
                        /\ resp.body \in {"Invalid credentials", "Internal error"})
    /\ [][( /\ resp'.op = "login"
            /\ resp'.body \in {"Invalid credentials", "Internal error"} )
              => /\ resp'.status \in {401, 500}
                 /\ sessions' = sessions
                 /\ \A c \in Clients : me(sessions'[c]) = me(sessions[c])]_vars

\* bob's name with a wrong password is turned away on a session that is, and
\* stays, alice's
C22_Witness ==
    /\ resp.op = "login" /\ resp.arg = "bob" /\ resp.password = "p1"
    /\ resp.status = 401
    /\ sessions[resp.client] = [user_id |-> "u1", username |-> "alice"]

\* C23: a step of a redemption request for token T leaves users, the catalog,
\* the sessions and the files as they were, and of download_tokens changes at
\* most the used flag of the row that holds T, from 0 to 1: no row comes or
\* goes, and the used flag of every other row stays
C23_RedemptionFrame ==
    [][\A r \in Reqs :
          reqs'[r] # reqs[r] =>
              /\ UNCHANGED <<users, download_files, sessions, fs>>
              /\ {t.id : t \in download_tokens'} = {t.id : t \in download_tokens}
              /\ Cardinality(download_tokens') = Cardinality(download_tokens)
              /\ \A t \in download_tokens :
                     \E u \in download_tokens' :
                         /\ u.id = t.id /\ u.token = t.token
                         /\ u.file_id = t.file_id /\ u.user_id = t.user_id
                         /\ t.token # reqs'[r].token => u.used = t.used
                         /\ u.used # t.used => (t.used = 0 /\ u.used = 1)]_vars

\* one token was redeemed and served while another issued token is unused
C23_Witness ==
    \E r \in Reqs :
        /\ reqs[r].pc = "done" /\ reqs[r].served /\ reqs[r].mark_ok
        /\ \E t \in download_tokens : t.token = reqs[r].token /\ t.used = 1
        /\ \E t \in download_tokens : t.token # reqs[r].token /\ t.used = 0

====
